---- MODULE Spec2Model ----
(***************************************************************************)
(* LOGOS: response normalizers, session repository (remote store with      *)
(* per-owner filtering, local cache) and the App orchestrator.             *)
(*                                                                         *)
(* Texts are sequences of tokens.  A token is one lexical unit the         *)
(* normalizers' string operations and JSON.parse can tell apart: a tag, a  *)
(* fence marker, a brace, a quote, a key, a number, a word.  Whitespace    *)
(* between tokens is insignificant (trim() and \s* in the regexes).        *)
(***************************************************************************)
EXTENDS Integers, Sequences, FiniteSets, TLC

VARIABLES
    \* ---- normalizer runs (one provider response per behaviour) ----
    raw,          \* raw provider text (token sequence)
    embedded,     \* the values the text was generated from
    normalizer,   \* which normalizer has run: "none", "edge", "custom", "gemini"
    result,       \* AnalysisResult or the thrown error
    newSession,   \* session processFile builds from a successful result
    \* ---- remote store (table analysis_sessions) and its callers ----
    rows,         \* the table: set of [id, user_id, timestamp]
    nextId,       \* number of ids gen_random_uuid() has handed out
    configured,   \* isSupabaseConfigured()
    resp,         \* the last completed repository call and what it returned
    \* ---- browser-local cache ----
    ls_user,      \* localStorage 'logos_user'
    ls_sessions,  \* localStorage 'logos_sessions'
    \* ---- App (one browser tab) ----
    user,             \* App state: the signed-in user
    sessions,         \* App state: the visible history
    currentSessionId, \* App state: the selected session
    authReady,        \* App state: startup finished
    initPc,           \* init(): "race" while awaiting Promise.race, then "done"
    sbUser,           \* the auth session the supabase-js client holds
    tasks,            \* async continuations waiting for a response
    appState,         \* AppState of the mounted Workbench
    analyses,         \* number of analyses started
    clock,            \* Date.now()
    events,           \* number of user and auth events so far
    lastCreate,       \* how the last handleNewSession ended and what it reported
    fallbackIds,      \* ids written through the local fallback after a failed remote create
    signedOutEvent,   \* an auth-state event without a session is due
    \* ---- relay endpoint and transport adapters ----
    ALLOWED_BASE_URLS, \* the server's allow-list of origins
    proxyReq,          \* body of the last request to the relay
    upstream,          \* the fetch the relay made for it, if any
    proxyRes,          \* the relay's reply
    transport          \* the last adapter call: what its fetch ended in, what it threw

normVars == <<raw, embedded, normalizer, result, newSession>>
storeVars == <<rows, nextId, configured, resp>>
cacheVars == <<ls_user, ls_sessions>>
appVars == <<user, sessions, currentSessionId, authReady, initPc, sbUser, tasks,
             appState, analyses, clock, events, lastCreate, fallbackIds,
             signedOutEvent>>
netVars == <<ALLOWED_BASE_URLS, proxyReq, upstream, proxyRes, transport>>
vars == <<normVars, storeVars, cacheVars, appVars, netVars>>

(***************************************************************************)
(* Tokens                                                                  *)
(***************************************************************************)
startTag == "<FINAL_JSON>"
endTag == "</FINAL_JSON>"
\* the markdown fence marker (three backticks), alone or with a language
Fence == "[fence]"
FenceJson == "[fence]json"
FencePython == "[fence]python"
Ellipsis == "..."
Comma == ","
Quote == "\""
Newline == "\n"
Dash == "-"

Keys == {"methodology_summary", "deep_reasoning", "critical_assumptions",
         "reproducibility_score", "citation_integrity",
         "simulation_python_code", "simulation_data"}

\* numeric literals and their values
NumTok == {"0", "3", "75", "91"}
NumVal(tok) == CASE tok = "0" -> 0 [] tok = "3" -> 3 [] tok = "75" -> 75 [] OTHER -> 91

\* body of a data point object, e.g. "x":0,"y":0.95
PtTok == {"x0y95", "x1y80", "x2y60"}

(***************************************************************************)
(* JavaScript string operations on token sequences                         *)
(***************************************************************************)
\* String.prototype.indexOf: first position, 0 when absent (JS: -1)
IndexOf(t, tok) ==
    IF \E i \in 1..Len(t) : t[i] = tok
    THEN CHOOSE i \in 1..Len(t) : t[i] = tok /\ \A j \in 1..(i-1) : t[j] # tok
    ELSE 0

\* String.prototype.lastIndexOf: last position, 0 when absent (JS: -1)
LastIndexOf(t, tok) ==
    IF \E i \in 1..Len(t) : t[i] = tok
    THEN CHOOSE i \in 1..Len(t) : t[i] = tok /\ \A j \in (i+1)..Len(t) : t[j] # tok
    ELSE 0

\* text.substring(startIndex + startTag.length, endIndex): the tokens strictly
\* between the two tags; substring swaps its arguments when the first is larger,
\* which then yields the span from the end tag through the start tag.
SubstringBetween(t, si, ei) ==
    IF si < ei THEN SubSeq(t, si + 1, ei - 1) ELSE SubSeq(t, ei, si)

\* s.replace(/tok/g, empty)
RECURSIVE RemoveTok(_, _)
RemoveTok(t, tok) ==
    IF t = <<>> THEN <<>>
    ELSE IF Head(t) = tok THEN RemoveTok(Tail(t), tok)
    ELSE <<Head(t)>> \o RemoveTok(Tail(t), tok)

\* s.replace(/,\s*\.\.\./g, empty)
RECURSIVE RemoveCommaEllipsis(_)
RemoveCommaEllipsis(t) ==
    IF Len(t) < 2 THEN t
    ELSE IF t[1] = Comma /\ t[2] = Ellipsis THEN RemoveCommaEllipsis(SubSeq(t, 3, Len(t)))
    ELSE <<Head(t)>> \o RemoveCommaEllipsis(Tail(t))

\* .replace(/[fence]json/gi, empty).replace(/[fence]/g, empty).trim()
StripFences(t) == RemoveTok(RemoveTok(t, FenceJson), Fence)

\* .replace(/,\s*\.\.\./g, empty).replace(/\.\.\./g, empty)
SanitizeEllipsis(t) == RemoveTok(RemoveCommaEllipsis(t), Ellipsis)

\* .replace(/[fence]python/g, empty).replace(/[fence]/g, empty)
StripCodeFences(t) == RemoveTok(RemoveTok(t, FencePython), Fence)

(***************************************************************************)
(* JSON values and JSON.parse                                              *)
(***************************************************************************)
Undefined == [ty |-> "undefined", s |-> <<>>, n |-> 0, els |-> <<>>]
NullV == [ty |-> "null", s |-> <<>>, n |-> 0, els |-> <<>>]
StrV(s) == [ty |-> "string", s |-> s, n |-> 0, els |-> <<>>]
NumV(n) == [ty |-> "number", s |-> <<>>, n |-> n, els |-> <<>>]
ArrV(els) == [ty |-> "array", s |-> <<>>, n |-> 0, els |-> els]
ObjV(s) == [ty |-> "object", s |-> s, n |-> 0, els |-> <<>>]

ParseFail == [ok |-> FALSE, nx |-> 0, v |-> Undefined]
ParseOk(v, nx) == [ok |-> TRUE, nx |-> nx, v |-> v]

\* position of the closing quote of the string opened at i, 0 when unterminated
\* or when a raw newline (a control character) occurs inside it
CloseQuote(t, i) ==
    IF \E j \in (i+1)..Len(t) : t[j] = Quote
    THEN LET j == CHOOSE j \in (i+1)..Len(t) :
                      t[j] = Quote /\ \A k \in (i+1)..(j-1) : t[k] # Quote
         IN IF \E k \in (i+1)..(j-1) : t[k] = Newline THEN 0 ELSE j
    ELSE 0

RECURSIVE ParseValue(_, _), ParseElems(_, _, _)
\* one JSON value starting at position i
ParseValue(t, i) ==
    IF i > Len(t) THEN ParseFail
    ELSE IF t[i] = Quote THEN
        LET j == CloseQuote(t, i)
        IN IF j = 0 THEN ParseFail ELSE ParseOk(StrV(SubSeq(t, i + 1, j - 1)), j + 1)
    ELSE IF t[i] \in NumTok THEN ParseOk(NumV(NumVal(t[i])), i + 1)
    ELSE IF t[i] = "null" THEN ParseOk(NullV, i + 1)
    ELSE IF t[i] = "[" THEN
        IF i + 1 <= Len(t) /\ t[i+1] = "]" THEN ParseOk(ArrV(<<>>), i + 2)
        ELSE ParseElems(t, i + 1, <<>>)
    ELSE IF t[i] = "{" THEN
        IF i + 1 <= Len(t) /\ t[i+1] = "}" THEN ParseOk(ObjV(<<"{", "}">>), i + 2)
        ELSE IF i + 2 <= Len(t) /\ t[i+1] \in PtTok /\ t[i+2] = "}"
             THEN ParseOk(ObjV(SubSeq(t, i, i + 2)), i + 3)
        ELSE ParseFail
    ELSE ParseFail

\* array elements from position i on; an element is kept as its token span
ParseElems(t, i, acc) ==
    LET r == ParseValue(t, i)
    IN IF ~r.ok THEN ParseFail
       ELSE LET acc2 == Append(acc, SubSeq(t, i, r.nx - 1))
            IN IF r.nx > Len(t) THEN ParseFail
               ELSE IF t[r.nx] = "]" THEN ParseOk(ArrV(acc2), r.nx + 1)
               ELSE IF t[r.nx] = Comma THEN ParseElems(t, r.nx + 1, acc2)
               ELSE ParseFail

NoFields == [k \in Keys |-> Undefined]

RECURSIVE ParseMembers(_, _, _)
\* members of the top-level object from position i on ("key": value, ...)
ParseMembers(t, i, f) ==
    IF i + 1 > Len(t) \/ t[i] \notin Keys THEN [ok |-> FALSE, nx |-> 0, f |-> NoFields]
    ELSE LET r == ParseValue(t, i + 1)
         IN IF ~r.ok \/ r.nx > Len(t) THEN [ok |-> FALSE, nx |-> 0, f |-> NoFields]
            ELSE LET f2 == [f EXCEPT ![t[i]] = r.v]
                 IN IF t[r.nx] = "}" THEN [ok |-> TRUE, nx |-> r.nx + 1, f |-> f2]
                    ELSE IF t[r.nx] = Comma THEN ParseMembers(t, r.nx + 1, f2)
                    ELSE [ok |-> FALSE, nx |-> 0, f |-> NoFields]

\* JSON.parse(text): ok = no SyntaxError; isNull = the value is null (property
\* access on it throws); f = the seven fields read from the parsed value
\* (undefined where the value has no such property).
JSONParse(t) ==
    LET bad == [ok |-> FALSE, isNull |-> FALSE, f |-> NoFields]
    IN IF t = <<>> THEN bad
       ELSE IF t[1] = "{" /\ Len(t) >= 2 /\ t[2] \in Keys THEN
           LET m == ParseMembers(t, 2, NoFields)
           IN IF m.ok /\ m.nx = Len(t) + 1
              THEN [ok |-> TRUE, isNull |-> FALSE, f |-> m.f] ELSE bad
       ELSE LET r == ParseValue(t, 1)
            IN IF r.ok /\ r.nx = Len(t) + 1
               THEN [ok |-> TRUE, isNull |-> r.v.ty = "null", f |-> NoFields] ELSE bad

(***************************************************************************)
(* Field defaults and coercions shared by the JSON normalizers             *)
(***************************************************************************)
\* JavaScript truthiness of a parsed value (the left operand of ||)
Truthy(v) ==
    CASE v.ty = "string" -> v.s # <<>>
      [] v.ty = "number" -> v.n # 0
      [] v.ty = "array" -> TRUE
      [] v.ty = "object" -> TRUE
      [] OTHER -> FALSE

DefaultSummary == StrV(<<"Could not extract summary.">>)
DefaultReasoning == StrV(<<"Could not extract reasoning.">>)
DefaultCode == StrV(<<"# Could not generate code.">>)
DefaultIntegrity == StrV(<<"Unknown">>)
DefaultScore == 75
MaxAssumptions == 3

\* array.slice(0, n)
SliceTo(els, n) == SubSeq(els, 1, IF Len(els) < n THEN Len(els) ELSE n)

NoResult == [status |-> "none", summary |-> Undefined, reasoning |-> Undefined,
             assumptions |-> <<>>, experimentCode |-> Undefined,
             simulationData |-> Undefined, reproducibilityScore |-> 0,
             citationIntegrity |-> Undefined]

\* the normalizer threw: the caller sees a failure and no AnalysisResult
ErrorResult == [NoResult EXCEPT !.status = "error"]

\* typeof parsed.reproducibility_score === 'number' ? it : 75
ScoreOf(v) == IF v.ty = "number" THEN v.n ELSE DefaultScore

\* parsed.citation_integrity || 'Unknown'
IntegrityOf(v) == IF Truthy(v) THEN v ELSE DefaultIntegrity

\* the assumptions array taken whole
AssumptionsOf_NoSlice(v) == IF v.ty = "array" THEN v.els ELSE <<>>

\* Array.isArray(parsed.critical_assumptions) ? it.slice(0, 3) : []
AssumptionsOf(v) == IF v.ty = "array" THEN SliceTo(v.els, MaxAssumptions) ELSE <<>>

\* the statements after the try block: build the AnalysisResult from the
\* parsed value.  Reading a property of null, and .replace on a value that is
\* not a string, throw a TypeError.
ApplyDefaults(p) ==
    IF ~p.ok \/ p.isNull THEN ErrorResult
    ELSE LET code == IF Truthy(p.f["simulation_python_code"])
                     THEN p.f["simulation_python_code"] ELSE DefaultCode
         IN IF code.ty # "string" THEN ErrorResult
            ELSE [status |-> "ok",
                  summary |-> IF Truthy(p.f["methodology_summary"])
                              THEN p.f["methodology_summary"] ELSE DefaultSummary,
                  reasoning |-> IF Truthy(p.f["deep_reasoning"])
                                THEN p.f["deep_reasoning"] ELSE DefaultReasoning,
                  assumptions |-> AssumptionsOf(p.f["critical_assumptions"]),
                  experimentCode |-> StrV(StripCodeFences(code.s)),
                  simulationData |-> IF p.f["simulation_data"].ty = "array"
                                     THEN p.f["simulation_data"] ELSE ArrV(<<>>),
                  reproducibilityScore |-> ScoreOf(p.f["reproducibility_score"]),
                  citationIntegrity |-> IntegrityOf(p.f["citation_integrity"])]

(***************************************************************************)
(* parseResponse of the analyze-paper edge function                        *)
(***************************************************************************)
\* rawText.match(/\{[\s\S]*\}/g): greedy, so the single match runs from the
\* first opening brace to the last closing brace; empty when there is none
GreedyBraceSpan(t) ==
    LET a == IndexOf(t, "{")
        b == LastIndexOf(t, "}")
    IN IF a # 0 /\ b # 0 /\ a < b THEN SubSeq(t, a, b) ELSE <<>>

\* the payload span the edge function hands to JSON.parse (<<>>: it throws
\* "Could not find <FINAL_JSON> tags or valid markdown block")
EdgePayload(t) ==
    LET startIndex == LastIndexOf(t, startTag)
        endIndex == LastIndexOf(t, endTag)
    IN IF startIndex # 0 /\ endIndex # 0 /\ startIndex < endIndex
       THEN SanitizeEllipsis(StripFences(SubstringBetween(t, startIndex, endIndex)))
       ELSE SanitizeEllipsis(GreedyBraceSpan(t))

parseResponse(t) == ApplyDefaults(JSONParse(EdgePayload(t)))

(***************************************************************************)
(* analyzePaperWithCustomAI: the parsing half                              *)
(***************************************************************************)
\* a token that begins with the three-backtick marker
FenceLike == {Fence, FenceJson, FencePython}

\* text.match(/[fence](?:json)?\s*(\{[\s\S]*?\})\s*[fence]/): leftmost opening
\* fence directly followed by a brace, shortest span ending in a closing brace
\* that is directly followed by a fence; <<>> when there is no match
FencedBlock(t) ==
    LET Opens(i) == /\ t[i] \in {Fence, FenceJson}
                    /\ i + 1 <= Len(t) /\ t[i+1] = "{"
                    /\ \E j \in (i+1)..(Len(t)-1) : t[j] = "}" /\ t[j+1] \in FenceLike
    IN IF \E i \in 1..Len(t) : Opens(i)
       THEN LET i == CHOOSE i \in 1..Len(t) : Opens(i) /\ \A k \in 1..(i-1) : ~Opens(k)
                Closes(j) == t[j] = "}" /\ t[j+1] \in FenceLike
                j == CHOOSE j \in (i+1)..(Len(t)-1) :
                         Closes(j) /\ \A k \in (i+1)..(j-1) : ~Closes(k)
            IN SubSeq(t, i + 1, j)
       ELSE <<>>

\* the payload span analyzePaperWithCustomAI hands to JSON.parse
CustomPayload(t) ==
    LET startIndex == IndexOf(t, startTag)
        endIndex == IndexOf(t, endTag)
    IN IF startIndex # 0 /\ endIndex # 0
       THEN StripFences(SubstringBetween(t, startIndex, endIndex))
       ELSE FencedBlock(t)

\* every throw inside analyzePaperWithCustomAI is rethrown by its outer catch
customAIParse(t) == ApplyDefaults(JSONParse(CustomPayload(t)))

(***************************************************************************)
(* parseGeminiResponse: the per-field tag parser                           *)
(***************************************************************************)
\* text.match(/<tag>([\s\S]*?)<\/tag>/): leftmost open tag that has a close
\* tag after it, body up to the first such close tag
TagMatch(t, open, close) ==
    LET i == IndexOf(t, open)
    IN IF i = 0 \/ ~(\E j \in (i+1)..Len(t) : t[j] = close)
       THEN [found |-> FALSE, body |-> <<>>]
       ELSE LET j == CHOOSE j \in (i+1)..Len(t) :
                         t[j] = close /\ \A k \in (i+1)..(j-1) : t[k] # close
            IN [found |-> TRUE, body |-> SubSeq(t, i + 1, j - 1)]

\* rawText.replace(/<think>[\s\S]*?<\/think>/gi, empty)
RECURSIVE RemoveThink(_)
RemoveThink(t) ==
    LET i == IndexOf(t, "<think>")
    IN IF i = 0 \/ ~(\E j \in (i+1)..Len(t) : t[j] = "</think>") THEN t
       ELSE LET j == CHOOSE j \in (i+1)..Len(t) :
                         t[j] = "</think>" /\ \A k \in (i+1)..(j-1) : t[k] # "</think>"
            IN RemoveThink(SubSeq(t, 1, i - 1) \o SubSeq(t, j + 1, Len(t)))

\* parseInt(body.trim(), 10) || 75: NaN (no leading digits) and 0 are falsy
ParseIntOr75(body) ==
    IF body # <<>> /\ body[1] \in NumTok /\ NumVal(body[1]) # 0
    THEN NumVal(body[1]) ELSE DefaultScore

\* body.split('\n')
RECURSIVE SplitLines(_, _)
SplitLines(t, cur) ==
    IF t = <<>> THEN <<cur>>
    ELSE IF Head(t) = Newline THEN <<cur>> \o SplitLines(Tail(t), <<>>)
    ELSE SplitLines(Tail(t), Append(cur, Head(t)))

\* .map(line => line.replace(/^-\s*/, empty).trim()).filter(line => line.length > 0)
RECURSIVE CleanLines(_)
CleanLines(ls) ==
    IF ls = <<>> THEN <<>>
    ELSE LET l == Head(ls)
             c == IF l # <<>> /\ l[1] = Dash THEN Tail(l) ELSE l
         IN IF c = <<>> THEN CleanLines(Tail(ls)) ELSE <<c>> \o CleanLines(Tail(ls))

\* the span of the simulation block handed to JSON.parse: from the first
\* bracket or brace (Math.max(0, search) makes "none" the start of the string)
\* to the last closing bracket or brace
SimSpan(body) ==
    LET js == StripFences(body)
        Opens == {i \in 1..Len(js) : js[i] \in {"[", "{"}}
        startIdx == IF Opens = {} THEN 1
                    ELSE CHOOSE i \in Opens : \A k \in Opens : i <= k
        a == LastIndexOf(js, "]")
        b == LastIndexOf(js, "}")
        endIdx == IF a > b THEN a ELSE b
    IN IF endIdx # 0 /\ endIdx >= startIdx THEN SubSeq(js, startIdx, endIdx) ELSE js

\* JSON.parse of any text, returning the value itself
ParseAny(t) ==
    LET p == JSONParse(t)
    IN IF ~p.ok THEN ParseFail
       ELSE IF t[1] = "{" /\ Len(t) >= 2 /\ t[2] \in Keys THEN ParseOk(ObjV(t), Len(t) + 1)
       ELSE ParseValue(t, 1)

parseGeminiResponse(rawText) ==
    LET text == RemoveThink(rawText)
        summaryMatch == TagMatch(text, "<summary>", "</summary>")
        reasoningMatch == TagMatch(text, "<reasoning>", "</reasoning>")
        assumptionsMatch == TagMatch(text, "<assumptions>", "</assumptions>")
        codeMatch == TagMatch(text, "<code>", "</code>")
        reproMatch == TagMatch(text, "<reproducibility>", "</reproducibility>")
        integrityMatch == TagMatch(text, "<integrity>", "</integrity>")
        simMatch == TagMatch(text, "<simulation_data>", "</simulation_data>")
        sim == IF simMatch.found THEN ParseAny(SimSpan(simMatch.body))
               ELSE ParseOk(ArrV(<<>>), 0)
    IN IF ~sim.ok THEN ErrorResult
       ELSE [status |-> "ok",
             summary |-> IF summaryMatch.found THEN StrV(summaryMatch.body)
                         ELSE DefaultSummary,
             reasoning |-> IF reasoningMatch.found THEN StrV(reasoningMatch.body)
                           ELSE DefaultReasoning,
             assumptions |-> SliceTo(CleanLines(SplitLines(assumptionsMatch.body, <<>>)),
                                     MaxAssumptions),
             experimentCode |-> IF codeMatch.found
                                THEN StrV(StripCodeFences(codeMatch.body))
                                ELSE DefaultCode,
             simulationData |-> sim.v,
             reproducibilityScore |-> IF reproMatch.found
                                      THEN ParseIntOr75(reproMatch.body)
                                      ELSE DefaultScore,
             citationIntegrity |-> IF integrityMatch.found
                                   THEN StrV(integrityMatch.body)
                                   ELSE DefaultIntegrity]

(***************************************************************************)
(* Provider responses: a text is rendered from the values it embeds        *)
(***************************************************************************)
MaxEmbeddedAssumptions == 4
MaxPoints == 2

KeyOrder == <<"methodology_summary", "deep_reasoning", "critical_assumptions",
              "reproducibility_score", "citation_integrity",
              "simulation_python_code", "simulation_data">>

NumTokOf(n) == CASE n = 0 -> "0" [] n = 3 -> "3" [] n = 75 -> "75" [] OTHER -> "91"

AssumptionPool == <<"a", "b", "c", "d", "e">>
PointPool == <<"x0y95", "x1y80", "x2y60">>

\* JSON text of a string element / of a data point
StrElem(w) == <<Quote, w, Quote>>
PtElem(p) == <<"{", p, "}">>

RECURSIVE JoinElems(_)
JoinElems(els) ==
    IF els = <<>> THEN <<>>
    ELSE IF Len(els) = 1 THEN els[1]
    ELSE els[1] \o <<Comma>> \o JoinElems(Tail(els))

\* JSON text of a value; ell adds the placeholder the prompt forbids at the
\* end of an array
SerValue(v, ell) ==
    CASE v.ty = "string" -> <<Quote>> \o v.s \o <<Quote>>
      [] v.ty = "number" -> <<NumTokOf(v.n)>>
      [] v.ty = "array" ->
            <<"[">> \o JoinElems(v.els)
                    \o (IF ~ell THEN <<>>
                        ELSE IF v.els = <<>> THEN <<Ellipsis>>
                        ELSE <<Comma, Ellipsis>>)
                    \o <<"]">>
      [] v.ty = "null" -> <<"null">>
      [] OTHER -> v.s

RECURSIVE SerMembers(_, _, _, _)
SerMembers(f, ell, i, first) ==
    IF i > Len(KeyOrder) THEN <<>>
    ELSE LET k == KeyOrder[i]
         IN IF f[k].ty = "undefined" THEN SerMembers(f, ell, i + 1, first)
            ELSE (IF first THEN <<>> ELSE <<Comma>>)
                 \o <<k>> \o SerValue(f[k], ell /\ k = "simulation_data")
                 \o SerMembers(f, ell, i + 1, FALSE)

\* the single JSON object of the <FINAL_JSON> contract
SerJson(f, ell) == <<"{">> \o SerMembers(f, ell, 1, TRUE) \o <<"}">>

RECURSIVE SerLines(_)
SerLines(els) ==
    IF els = <<>> THEN <<>>
    ELSE <<Dash>> \o SubSeq(els[1], 2, Len(els[1]) - 1)
         \o (IF Len(els) = 1 THEN <<>> ELSE <<Newline>>) \o SerLines(Tail(els))

\* the per-field tag pairs of the tag contract
SerTags(f, ell) ==
    LET Tagged(k, open, body, close) ==
            IF f[k].ty = "undefined" THEN <<>> ELSE <<open>> \o body \o <<close>>
    IN Tagged("methodology_summary", "<summary>", f["methodology_summary"].s, "</summary>")
       \o Tagged("reproducibility_score", "<reproducibility>",
                 SerValue(f["reproducibility_score"], FALSE), "</reproducibility>")
       \o Tagged("citation_integrity", "<integrity>",
                 IF f["citation_integrity"].ty = "string"
                 THEN f["citation_integrity"].s
                 ELSE SerValue(f["citation_integrity"], FALSE), "</integrity>")
       \o Tagged("deep_reasoning", "<reasoning>", f["deep_reasoning"].s, "</reasoning>")
       \o Tagged("critical_assumptions", "<assumptions>",
                 SerLines(f["critical_assumptions"].els), "</assumptions>")
       \o Tagged("simulation_python_code", "<code>",
                 f["simulation_python_code"].s, "</code>")
       \o Tagged("simulation_data", "<simulation_data>",
                 SerValue(f["simulation_data"], ell), "</simulation_data>")

\* the model's copy of the instructions, which quotes the delimiter contract
EchoedInstructions == <<"w", startTag, "{", Ellipsis, "}", endTag, "w">>

Preambles == {<<>>, <<"w">>, EchoedInstructions, <<"<think>", "w", "</think>">>}

\* how the payload is delivered
Wrappers == {"final", "finalFenced", "fenced", "bare", "tags", "plain"}

RenderText(e) ==
    e.pre \o
    (CASE e.wrap = "final" -> <<startTag>> \o SerJson(e.f, e.ell) \o <<endTag>>
       [] e.wrap = "finalFenced" ->
             <<startTag, FenceJson>> \o SerJson(e.f, e.ell) \o <<Fence, endTag>>
       [] e.wrap = "fenced" -> <<FenceJson>> \o SerJson(e.f, e.ell) \o <<Fence>>
       [] e.wrap = "bare" -> SerJson(e.f, e.ell)
       [] e.wrap = "tags" -> SerTags(e.f, e.ell)
       [] OTHER -> <<"w", "w">>)

SummaryChoices == {StrV(<<"X">>), StrV(<<"see", Ellipsis, "fig">>), StrV(<<>>)}
ScoreChoices == {Undefined, NumV(91), NumV(0), StrV(<<"91">>)}
IntegrityChoices == {Undefined, StrV(<<"High">>), NumV(3), StrV(<<>>)}
AssumptionChoices ==
    {ArrV([i \in 1..k |-> StrElem(AssumptionPool[i])]) : k \in 0..MaxEmbeddedAssumptions}
SimChoices == {ArrV([i \in 1..k |-> PtElem(PointPool[i])]) : k \in 0..MaxPoints}

BaseFields ==
    [k \in Keys |->
        CASE k = "methodology_summary" -> StrV(<<"X">>)
          [] k = "deep_reasoning" -> StrV(<<"R">>)
          [] k = "critical_assumptions" ->
                ArrV(<<StrElem("a"), StrElem("b"), StrElem("c")>>)
          [] k = "reproducibility_score" -> NumV(91)
          [] k = "citation_integrity" -> StrV(<<"High">>)
          [] k = "simulation_python_code" -> StrV(<<"print(1)">>)
          [] OTHER -> ArrV(<<PtElem("x0y95")>>)]

Responses ==
    {[f |-> [BaseFields EXCEPT !["methodology_summary"] = su,
                               !["critical_assumptions"] = as,
                               !["reproducibility_score"] = sc,
                               !["citation_integrity"] = ci,
                               !["simulation_data"] = sd],
      ell |-> el, wrap |-> wr, pre |-> pr] :
        su \in SummaryChoices, as \in AssumptionChoices, sc \in ScoreChoices,
        ci \in IntegrityChoices, sd \in SimChoices, el \in BOOLEAN,
        wr \in Wrappers \ {"plain"}, pr \in Preambles}
    \cup {[f |-> BaseFields, ell |-> FALSE, wrap |-> "plain", pre |-> pr] :
            pr \in {<<>>, <<"w">>}}

(***************************************************************************)
(* Remote store: table analysis_sessions, its row-level-security policies, *)
(* the Express session API (service-role client, explicit filters) and the *)
(* browser's direct supabase-js calls (anon key, policies apply)           *)
(***************************************************************************)
Identities == {"A", "B"}
NoUser == "null"
MaxRows == 2
MaxTs == 2

\* session ids: the table's UUIDs, or Date.now().toString() made by the browser
Uuid(n) == [k |-> "uuid", n |-> n]
LocalId(n) == [k |-> "ts", n |-> n]
IsUuid(id) == id.k = "uuid"

\* bearer tokens; getUser(token) of the auth service
TokenOf(u) == [of |-> u]
NoToken == [of |-> "none"]
BadToken == [of |-> "bad"]

\* getUserFromJwt: null when the server has no Supabase client or the token
\* is not a valid JWT
getUserFromJwt(token) ==
    IF ~configured THEN NoUser
    ELSE IF token.of \in Identities THEN token.of ELSE NoUser

\* optionalAuth: no Bearer token leaves authUser undefined
optionalAuth(token) ==
    IF token = NoToken THEN NoUser ELSE getUserFromJwt(token)

\* .order('timestamp', { ascending: false }): a sequence of the given rows,
\* newest first (rows of equal timestamp in the order the database picks)
OrderDesc(S) ==
    CHOOSE q \in [1..Cardinality(S) -> S] :
        /\ \A i, j \in 1..Cardinality(S) : i # j => q[i] # q[j]
        /\ \A i, j \in 1..Cardinality(S) : i < j => q[i].timestamp >= q[j].timestamp

\* policy "Users can view own sessions": USING (auth.uid() = user_id)
PolicySelect(uid, r) == uid = r.user_id
\* policy "Users can insert own sessions": WITH CHECK (auth.uid() = user_id)
PolicyInsert(uid, r) == uid = r.user_id
\* a delete policy open to every authenticated user
PolicyDelete_AnyRow(uid, r) == uid # NoUser
\* policy "Users can delete own sessions": USING (auth.uid() = user_id)
PolicyDelete(uid, r) == uid = r.user_id

NoRow == [id |-> Uuid(0), user_id |-> NoUser, timestamp |-> 0]
Reply(status, list, row, table) ==
    [status |-> status, list |-> list, row |-> row, rows |-> table]

\* the list handler without its owner filter
ApiListFilter_NoOwner(authUser, r) == TRUE

\* GET /api/sessions
\* .eq('user_id', authUser.id) of the list handler
ApiListFilter(authUser, r) == r.user_id = authUser

GetSessions(token, dberr) ==
    LET authUser == optionalAuth(token)
    IN IF authUser = NoUser THEN Reply(401, <<>>, NoRow, rows)
       ELSE IF ~configured THEN Reply(503, <<>>, NoRow, rows)
       ELSE IF dberr THEN Reply(500, <<>>, NoRow, rows)
       ELSE Reply(200, OrderDesc({r \in rows : ApiListFilter(authUser, r)}), NoRow, rows)

\* a create handler that stores the owner named in the request body
PostSessions_OwnerFromBody(token, body, dberr) ==
    LET authUser == optionalAuth(token)
    IN IF authUser = NoUser THEN Reply(401, <<>>, NoRow, rows)
       ELSE IF ~configured THEN Reply(503, <<>>, NoRow, rows)
       ELSE IF ~body.hasFilename THEN Reply(400, <<>>, NoRow, rows)
       ELSE IF dberr THEN Reply(500, <<>>, NoRow, rows)
       ELSE LET row == [id |-> Uuid(nextId + 1), user_id |-> body.user_id,
                        timestamp |-> body.timestamp]
            IN Reply(201, <<>>, row, rows \cup {row})

\* POST /api/sessions: the row's owner is the authenticated user and its id
\* the table default; body.id and any owner in the body are not read
PostSessions(token, body, dberr) ==
    LET authUser == optionalAuth(token)
    IN IF authUser = NoUser THEN Reply(401, <<>>, NoRow, rows)
       ELSE IF ~configured THEN Reply(503, <<>>, NoRow, rows)
       ELSE IF ~body.hasFilename THEN Reply(400, <<>>, NoRow, rows)
       ELSE IF dberr THEN Reply(500, <<>>, NoRow, rows)
       ELSE LET row == [id |-> Uuid(nextId + 1), user_id |-> authUser,
                        timestamp |-> body.timestamp]
            IN Reply(201, <<>>, row, rows \cup {row})

\* .eq('id', id).eq('user_id', authUser.id) of the delete handler
ApiDeleteFilter(authUser, id, r) == r.id = id /\ r.user_id = authUser

\* DELETE /api/sessions/:id (an id that is not a UUID is a database error)
DeleteSessionById(token, id, dberr) ==
    LET authUser == optionalAuth(token)
    IN IF authUser = NoUser THEN Reply(401, <<>>, NoRow, rows)
       ELSE IF ~configured THEN Reply(503, <<>>, NoRow, rows)
       ELSE IF dberr \/ ~IsUuid(id) THEN Reply(500, <<>>, NoRow, rows)
       ELSE Reply(204, <<>>, NoRow, {r \in rows : ~ApiDeleteFilter(authUser, id, r)})

\* .eq('user_id', authUser.id) of the delete-all handler
ApiClearFilter(authUser, r) == r.user_id = authUser

\* a delete-all handler that does not look at the all parameter
DeleteAllSessions_NoFlag(token, all, dberr) ==
    LET authUser == optionalAuth(token)
    IN IF authUser = NoUser THEN Reply(401, <<>>, NoRow, rows)
       ELSE IF ~configured THEN Reply(503, <<>>, NoRow, rows)
       ELSE IF dberr THEN Reply(500, <<>>, NoRow, rows)
       ELSE Reply(204, <<>>, NoRow, {r \in rows : ~ApiClearFilter(authUser, r)})

\* DELETE /api/sessions?all=1
DeleteAllSessions(token, all, dberr) ==
    LET authUser == optionalAuth(token)
    IN IF authUser = NoUser THEN Reply(401, <<>>, NoRow, rows)
       ELSE IF ~all THEN Reply(400, <<>>, NoRow, rows)
       ELSE IF ~configured THEN Reply(503, <<>>, NoRow, rows)
       ELSE IF dberr THEN Reply(500, <<>>, NoRow, rows)
       ELSE Reply(204, <<>>, NoRow, {r \in rows : ~ApiClearFilter(authUser, r)})

\* sessionsApi.apiRequest: no request without a token; ok only for 2xx
apiRequestOk(token, reply) == token # NoToken /\ reply.status \in {200, 201, 204}

\* rowToSession / mapRowToSession: the AnalysisSession of a row (no owner field)
rowToSession(r) == [id |-> r.id, timestamp |-> r.timestamp]
MapRows(q) == [i \in 1..Len(q) |-> rowToSession(q[i])]

\* sessionsApi.fetchSessions
fetchSessions(token, reply) ==
    IF ~apiRequestOk(token, reply) THEN <<>> ELSE MapRows(reply.list)

\* supabase-js from the browser, signed in as uid (NoUser: anonymous).  A
\* failed call carries error and no data.
\* a list that falls back to the cached sessions on error
fetchSessionsFromSupabase_CacheOnError(uid, dberr) ==
    IF dberr THEN ls_sessions.list
    ELSE MapRows(OrderDesc({r \in rows : uid = r.user_id}))

\* fetchSessionsFromSupabase: select('*').order(...), if (error) return []
fetchSessionsFromSupabase(uid, dberr) ==
    IF dberr THEN <<>> ELSE MapRows(OrderDesc({r \in rows : PolicySelect(uid, r)}))

\* createSessionInSupabase: getUser(), insert(row).select('*').single()
createSessionInSupabase(uid, session, dberr) ==
    IF uid = NoUser THEN Reply(0, <<>>, NoRow, rows)
    ELSE LET row == [id |-> Uuid(nextId + 1), user_id |-> uid,
                     timestamp |-> session.timestamp]
         IN IF dberr \/ ~PolicyInsert(uid, row) THEN Reply(0, <<>>, NoRow, rows)
            ELSE Reply(201, <<>>, row, rows \cup {row})

\* deleteSessionInSupabase: delete().eq('id', id); !error
deleteSessionInSupabase(uid, id, dberr) ==
    IF dberr \/ ~IsUuid(id) THEN Reply(0, <<>>, NoRow, rows)
    ELSE Reply(204, <<>>, NoRow, {r \in rows : ~(r.id = id /\ PolicyDelete(uid, r))})

\* clearAllSessionsInSupabase: getUser(), delete().eq('user_id', user.id)
clearAllSessionsInSupabase(uid, dberr) ==
    IF uid = NoUser \/ dberr THEN Reply(0, <<>>, NoRow, rows)
    ELSE Reply(204, <<>>, NoRow,
               {r \in rows : ~(r.user_id = uid /\ PolicyDelete(uid, r))})

(***************************************************************************)
(* Repository calls by two signed-in identities, in any interleaving       *)
(***************************************************************************)
NoResp == [caller |-> NoUser, via |-> "none", op |-> "none", failed |-> FALSE,
           status |-> 0, list |-> <<>>, saved |-> NoRow, id |-> Uuid(0),
           all |-> FALSE, owner |-> NoUser]

\* credentials a client of identity u can present
Credentials(u) == {TokenOf(u), NoToken, BadToken}

\* ids a caller may name: any id of the table, an id of no row, a local id
NameableIds == {Uuid(n) : n \in 1..(MaxRows + 1)} \cup {LocalId(1)}

Bodies == [hasFilename : BOOLEAN, timestamp : 1..MaxTs,
           id : {Uuid(1), LocalId(1)}, user_id : Identities]

ApiList(u) ==
    \E token \in Credentials(u), dberr \in BOOLEAN :
        LET reply == GetSessions(token, dberr)
        IN /\ resp' = [NoResp EXCEPT !.caller = u, !.via = "api", !.op = "list",
                                     !.failed = ~apiRequestOk(token, reply),
                                     !.status = reply.status,
                                     !.list = fetchSessions(token, reply)]
           /\ UNCHANGED <<rows, nextId, configured, normVars, netVars, cacheVars, appVars>>

ApiCreate(u) ==
    \E token \in Credentials(u), body \in Bodies, dberr \in BOOLEAN :
        LET reply == PostSessions(token, body, dberr)
        IN /\ nextId < MaxRows
           /\ rows' = reply.rows
           /\ nextId' = IF reply.status = 201 THEN nextId + 1 ELSE nextId
           /\ resp' = [NoResp EXCEPT !.caller = u, !.via = "api", !.op = "create",
                                     !.failed = ~apiRequestOk(token, reply),
                                     !.status = reply.status, !.saved = reply.row,
                                     !.id = body.id, !.owner = body.user_id]
           /\ UNCHANGED <<configured, normVars, netVars, cacheVars, appVars>>

ApiDelete(u) ==
    \E token \in Credentials(u), id \in NameableIds, dberr \in BOOLEAN :
        LET reply == DeleteSessionById(token, id, dberr)
        IN /\ rows' = reply.rows
           /\ resp' = [NoResp EXCEPT !.caller = u, !.via = "api", !.op = "delete",
                                     !.failed = ~apiRequestOk(token, reply),
                                     !.status = reply.status, !.id = id]
           /\ UNCHANGED <<nextId, configured, normVars, netVars, cacheVars, appVars>>

ApiClear(u) ==
    \E token \in Credentials(u), all \in BOOLEAN, dberr \in BOOLEAN :
        LET reply == DeleteAllSessions(token, all, dberr)
        IN /\ rows' = reply.rows
           /\ resp' = [NoResp EXCEPT !.caller = u, !.via = "api", !.op = "clear",
                                     !.failed = ~apiRequestOk(token, reply),
                                     !.status = reply.status, !.all = all]
           /\ UNCHANGED <<nextId, configured, normVars, netVars, cacheVars, appVars>>

SbList(u) ==
    \E dberr \in BOOLEAN :
        /\ configured
        /\ resp' = [NoResp EXCEPT !.caller = u, !.via = "supabase", !.op = "list",
                                  !.failed = dberr,
                                  !.list = fetchSessionsFromSupabase(u, dberr)]
        /\ UNCHANGED <<rows, nextId, configured, normVars, netVars, cacheVars, appVars>>

SbCreate(u) ==
    \E ts \in 1..MaxTs, dberr \in BOOLEAN :
        LET reply == createSessionInSupabase(u, [id |-> LocalId(ts), timestamp |-> ts], dberr)
        IN /\ configured
           /\ nextId < MaxRows
           /\ rows' = reply.rows
           /\ nextId' = IF reply.status = 201 THEN nextId + 1 ELSE nextId
           /\ resp' = [NoResp EXCEPT !.caller = u, !.via = "supabase", !.op = "create",
                                     !.failed = reply.status # 201,
                                     !.status = reply.status, !.saved = reply.row,
                                     !.id = LocalId(ts)]
           /\ UNCHANGED <<configured, normVars, netVars, cacheVars, appVars>>

SbDelete(u) ==
    \E id \in NameableIds, dberr \in BOOLEAN :
        LET reply == deleteSessionInSupabase(u, id, dberr)
        IN /\ configured
           /\ rows' = reply.rows
           /\ resp' = [NoResp EXCEPT !.caller = u, !.via = "supabase", !.op = "delete",
                                     !.failed = reply.status # 204,
                                     !.status = reply.status, !.id = id]
           /\ UNCHANGED <<nextId, configured, normVars, netVars, cacheVars, appVars>>

SbClear(u) ==
    \E dberr \in BOOLEAN :
        LET reply == clearAllSessionsInSupabase(u, dberr)
        IN /\ configured
           /\ rows' = reply.rows
           /\ resp' = [NoResp EXCEPT !.caller = u, !.via = "supabase", !.op = "clear",
                                     !.failed = reply.status # 204,
                                     !.status = reply.status, !.all = TRUE]
           /\ UNCHANGED <<nextId, configured, normVars, netVars, cacheVars, appVars>>

(***************************************************************************)
(* App.tsx and the Workbench: one browser tab, one remote identity "A"     *)
(***************************************************************************)
MaxEvents == 3
MaxClock == 2
MaxInFlight == 2

NoId == Uuid(0)
NoSess == [id |-> NoId, timestamp |-> 0]
NoCache == [present |-> FALSE, list |-> <<>>]
Cached(l) == [present |-> TRUE, list |-> l]
Anon == "anon"

\* user?.id
HasId(u) == u \in Identities

Task(kind) == [kind |-> kind, pc |-> "", n |-> 0, uid |-> NoUser, list |-> <<>>,
               session |-> NoSess, saved |-> NoSess, ok |-> FALSE, mounted |-> FALSE]

\* prev.filter(s => s.id !== id)
FilterOut(q, id) == LET Keep(x) == x.id # id IN SelectSeq(q, Keep)
Has(q, id) == \E i \in 1..Len(q) : q[i].id = id
Count(q, id) == Cardinality({i \in 1..Len(q) : q[i].id = id})

\* <Workbench key={currentSessionId || 'new'} initialSession={currentSession}>:
\* a change of key (or leaving the main screen) unmounts the Workbench; the
\* new one starts COMPLETE when the selected session is in the list, else IDLE
Remounts(u2, cur2) == u2 = NoUser \/ cur2 # currentSessionId
MountState(u2, cur2, sess2, app2) ==
    IF u2 = NoUser THEN "IDLE"
    ELSE IF cur2 # currentSessionId
         THEN (IF Has(sess2, cur2) THEN "COMPLETE" ELSE "IDLE")
    ELSE app2
Unmount(ts) == {[t EXCEPT !.mounted = FALSE] : t \in ts}

\* the App state after a handler step and the re-render it causes
Rerender(u2, cur2, sess2, app2, tasks2) ==
    /\ user' = u2
    /\ currentSessionId' = cur2
    /\ sessions' = sess2
    /\ appState' = MountState(u2, cur2, sess2, app2)
    /\ tasks' = IF Remounts(u2, cur2) THEN Unmount(tasks2) ELSE tasks2

CanStart == Cardinality(tasks) < MaxInFlight

\* one more user or auth event
Event == events < MaxEvents /\ events' = events + 1
MainScreen == authReady /\ user # NoUser

\* init(): the local fallback after the race (lines 123-138)
FallbackUser(u) == IF ls_user # NoUser THEN ls_user ELSE u
FallbackSessions(q) == IF ls_sessions.present THEN ls_sessions.list ELSE q

\* ---- startup ----
\* initSupabase(): getSession() answered, or threw (the race's catch turns a
\* rejection into false)
SupGotSession(t) ==
    /\ t.kind = "initSupabase" /\ t.pc = "getSession"
    /\ \E throws \in BOOLEAN :
       IF sbUser = NoUser \/ throws
       THEN \* return false
            /\ IF initPc = "race"
               THEN /\ Rerender(FallbackUser(user), currentSessionId,
                              FallbackSessions(sessions), appState, tasks \ {t})
                    /\ authReady' = TRUE /\ initPc' = "done"
               ELSE /\ Rerender(user, currentSessionId, sessions, appState, tasks \ {t})
                    /\ UNCHANGED <<authReady, initPc>>
       ELSE \E dberr \in BOOLEAN :
            /\ Rerender(sbUser, currentSessionId, sessions, appState,
                      (tasks \ {t}) \cup
                      {[t EXCEPT !.pc = "fetch",
                                 !.list = fetchSessionsFromSupabase(sbUser, dberr)]})
            /\ UNCHANGED <<authReady, initPc>>
    /\ UNCHANGED <<sbUser, analyses, clock, events, lastCreate, fallbackIds,
                   signedOutEvent, storeVars, cacheVars, normVars, netVars>>

\* initSupabase(): fetchSessionsFromSupabase() answered; return true
SupFetchDone(t) ==
    /\ t.kind = "initSupabase" /\ t.pc = "fetch"
    /\ Rerender(user, currentSessionId, t.list, appState, tasks \ {t})
    /\ IF initPc = "race" THEN authReady' = TRUE /\ initPc' = "done"
       ELSE UNCHANGED <<authReady, initPc>>
    /\ UNCHANGED <<sbUser, analyses, clock, events, lastCreate, fallbackIds,
                   signedOutEvent, storeVars, cacheVars, normVars, netVars>>

\* a race without its timer
InitTimeout_NoTimer == FALSE /\ UNCHANGED vars

\* the INIT_TIMEOUT_MS timer wins the race
InitTimeout ==
    /\ initPc = "race" /\ configured
    /\ Rerender(FallbackUser(user), currentSessionId, FallbackSessions(sessions),
              appState, tasks)
    /\ authReady' = TRUE /\ initPc' = "done"
    /\ UNCHANGED <<sbUser, analyses, clock, events, lastCreate, fallbackIds,
                   signedOutEvent, storeVars, cacheVars, normVars, netVars>>

\* no remote configured: initSupabase() returns false at once
InitNoRemote ==
    /\ initPc = "race" /\ ~configured
    /\ Rerender(FallbackUser(user), currentSessionId, FallbackSessions(sessions),
              appState, tasks)
    /\ authReady' = TRUE /\ initPc' = "done"
    /\ UNCHANGED <<sbUser, analyses, clock, events, lastCreate, fallbackIds,
                   signedOutEvent, storeVars, cacheVars, normVars, netVars>>

\* ---- auth-state events ----
\* onAuthStateChange with a session: the deferred refresh is scheduled
AuthEventSession ==
    /\ configured /\ sbUser # NoUser /\ CanStart
    /\ ~(\E t \in tasks : t.kind = "refresh")
    /\ Event
    /\ tasks' = tasks \cup {[Task("refresh") EXCEPT !.pc = "getMe"]}
    /\ UNCHANGED <<user, sessions, currentSessionId, authReady, initPc, sbUser,
                   appState, analyses, clock, lastCreate, fallbackIds,
                   signedOutEvent, storeVars, cacheVars, normVars, netVars>>

\* onAuthStateChange without a session
AuthEventNoSession ==
    /\ configured /\ signedOutEvent
    /\ signedOutEvent' = FALSE
    /\ Rerender(NoUser, NoId, <<>>, appState, tasks)
    /\ fallbackIds' = {}
    /\ UNCHANGED <<authReady, initPc, sbUser, analyses, clock, events,
                   lastCreate, storeVars, cacheVars, normVars, netVars>>

\* deferred refresh: getMeFromSupabase() answered
RefreshGotMe(t) ==
    /\ t.kind = "refresh" /\ t.pc = "getMe"
    /\ \E neterr \in BOOLEAN :
        LET me == IF neterr THEN NoUser ELSE sbUser
        IN IF me = NoUser
           THEN Rerender(user, currentSessionId, sessions, appState, tasks \ {t})
           ELSE \E dberr \in BOOLEAN :
                Rerender(me, currentSessionId, sessions, appState,
                       (tasks \ {t}) \cup
                       {[t EXCEPT !.pc = "fetch",
                                  !.list = fetchSessionsFromSupabase(me, dberr)]})
    /\ UNCHANGED <<authReady, initPc, sbUser, analyses, clock, events,
                   lastCreate, fallbackIds, signedOutEvent, storeVars, cacheVars,
                   normVars, netVars>>

\* deferred refresh: fetchSessionsFromSupabase() answered
RefreshFetchDone(t) ==
    /\ t.kind = "refresh" /\ t.pc = "fetch"
    /\ Rerender(user, currentSessionId, t.list, appState, tasks \ {t})
    /\ UNCHANGED <<authReady, initPc, sbUser, analyses, clock, events,
                   lastCreate, fallbackIds, signedOutEvent, storeVars, cacheVars,
                   normVars, netVars>>

\* ---- sign-in and sign-out ----
\* AuthScreen: signInWithPassword succeeded, handleLogin(user with id)
LoginRemote ==
    /\ authReady /\ user = NoUser /\ configured /\ CanStart
    /\ sbUser' = "A"
    /\ \E dberr \in BOOLEAN :
        Rerender("A", currentSessionId, sessions, appState,
               tasks \cup {[Task("login") EXCEPT
                               !.list = fetchSessionsFromSupabase("A", dberr)]})
    /\ signedOutEvent' = FALSE
    /\ Event
    /\ UNCHANGED <<authReady, initPc, analyses, clock, lastCreate,
                   fallbackIds, storeVars, cacheVars, normVars, netVars>>

\* AuthScreen: local sign-in (remote unreachable or absent), handleLogin(user
\* without id)
LoginLocal ==
    /\ authReady /\ user = NoUser
    /\ Rerender(Anon, currentSessionId, sessions, appState, tasks)
    /\ ls_user' = Anon
    /\ Event
    /\ UNCHANGED <<authReady, initPc, sbUser, analyses, clock,
                   lastCreate, fallbackIds, signedOutEvent, storeVars,
                   ls_sessions, normVars, netVars>>

\* handleLogin: fetchSessionsFromSupabase() answered
LoginFetchDone(t) ==
    /\ t.kind = "login"
    /\ Rerender(user, currentSessionId, t.list, appState, tasks \ {t})
    /\ UNCHANGED <<authReady, initPc, sbUser, analyses, clock, events,
                   lastCreate, fallbackIds, signedOutEvent, storeVars, cacheVars,
                   normVars, netVars>>

\* a finally block that leaves the cached sessions in place
LogoutFinally_KeepSessions(tasks2) ==
    /\ Rerender(NoUser, NoId, <<>>, appState, tasks2)
    /\ ls_user' = NoUser
    /\ UNCHANGED ls_sessions
    /\ fallbackIds' = {}

\* the finally block of handleLogout
LogoutFinally(tasks2) ==
    /\ Rerender(NoUser, NoId, <<>>, appState, tasks2)
    /\ ls_user' = NoUser
    /\ ls_sessions' = NoCache
    /\ fallbackIds' = {}

\* handleLogout up to await supabase.auth.signOut() (which may throw)
LogoutStart ==
    /\ MainScreen
    /\ IF configured
       THEN /\ CanStart
            /\ \E throws \in BOOLEAN :
                /\ sbUser' = IF throws THEN sbUser ELSE NoUser
                /\ signedOutEvent' = IF throws THEN signedOutEvent ELSE TRUE
            /\ tasks' = tasks \cup {Task("logout")}
            /\ UNCHANGED <<user, sessions, currentSessionId, appState, cacheVars,
                           fallbackIds>>
       ELSE /\ LogoutFinally(tasks)
            /\ UNCHANGED <<sbUser, signedOutEvent>>
    /\ Event
    /\ UNCHANGED <<authReady, initPc, analyses, clock, lastCreate,
                   storeVars, normVars, netVars>>

LogoutDone(t) ==
    /\ t.kind = "logout"
    /\ LogoutFinally(tasks \ {t})
    /\ UNCHANGED <<authReady, initPc, sbUser, analyses, clock, events,
                   lastCreate, signedOutEvent, storeVars, normVars, netVars>>

\* ---- analysis and session creation ----
\* what handleNewSession hands back to its caller: it resolves to undefined
\* and shows nothing, whether the remote create succeeded (ok) or the local
\* fallback ran; processFile does not await it and toasts "Analysis Complete"
CreateReport(ok) == "undefined"

NoCreate == [path |-> "none", report |-> "undefined"]

\* handleNewSession: the local write (lines 212-217)
LocalWrite(session, app2, tasks2) ==
    LET next == <<session>> \o sessions
    IN /\ Rerender(user, session.id, next, app2, tasks2)
       /\ ls_sessions' = Cached(next)

\* Workbench.processFile up to its first await; the file handlers exist only
\* in the IDLE view.  onAnalysisComplete is the handleNewSession of this
\* render, which has read user?.id.
AnalysisStart ==
    /\ MainScreen /\ appState = "IDLE" /\ CanStart
    /\ analyses' = analyses + 1
    /\ appState' = "ANALYZING"
    /\ tasks' = tasks \cup {[Task("analysis") EXCEPT !.n = analyses + 1,
                                                     !.uid = user, !.mounted = TRUE]}
    /\ Event
    /\ UNCHANGED <<user, sessions, currentSessionId, authReady, initPc, sbUser,
                   clock, lastCreate, fallbackIds, signedOutEvent,
                   storeVars, cacheVars, normVars, netVars>>

\* a catch block that stores a session for the failed submission
AnalysisFail_StoresSession(t) ==
    /\ t.kind = "analysis"
    /\ LocalWrite([id |-> LocalId(clock), timestamp |-> clock],
                  IF t.mounted THEN "ERROR" ELSE appState, tasks \ {t})
    /\ UNCHANGED <<authReady, initPc, sbUser, analyses, clock, events, lastCreate,
                   fallbackIds, signedOutEvent, storeVars, ls_user, normVars, netVars>>

\* processFile: extraction, transport or normalization threw
AnalysisFail(t) ==
    /\ t.kind = "analysis"
    /\ tasks' = tasks \ {t}
    /\ appState' = IF t.mounted THEN "ERROR" ELSE appState
    /\ UNCHANGED <<user, sessions, currentSessionId, authReady, initPc, sbUser,
                   analyses, clock, events, lastCreate, fallbackIds,
                   signedOutEvent, storeVars, cacheVars, normVars, netVars>>

\* processFile: the result arrived; newSession is built with id and timestamp
\* Date.now(), handleNewSession runs up to its await (or to its end on the
\* local path), then setAppState(COMPLETE) and toast "Analysis Complete"
AnalysisDone(t) ==
    /\ t.kind = "analysis"
    /\ \E now \in {clock, clock + 1} \cap 1..MaxClock :
       LET session == [id |-> LocalId(now), timestamp |-> now]
           app2 == IF t.mounted THEN "COMPLETE" ELSE appState
       IN /\ clock' = now
          /\ IF configured /\ HasId(t.uid)
             THEN \E dberr \in BOOLEAN :
                  LET reply == createSessionInSupabase(sbUser, session, dberr)
                  IN /\ rows' = reply.rows
                     /\ nextId' = IF reply.status = 201 THEN nextId + 1 ELSE nextId
                     /\ Rerender(user, currentSessionId, sessions, app2,
                                 (tasks \ {t}) \cup
                                 {[Task("create") EXCEPT !.session = session,
                                                         !.ok = reply.status = 201,
                                                         !.saved = rowToSession(reply.row)]})
                     /\ UNCHANGED <<ls_sessions, lastCreate>>
             ELSE /\ LocalWrite(session, app2, tasks \ {t})
                  /\ lastCreate' = [path |-> "local", report |-> CreateReport(TRUE)]
                  /\ UNCHANGED <<rows, nextId>>
    /\ UNCHANGED <<authReady, initPc, sbUser, analyses, events, fallbackIds,
                   signedOutEvent, configured, resp, ls_user, normVars, netVars>>

\* handleNewSession after await createSessionInSupabase(session)
CreateDone(t) ==
    /\ t.kind = "create"
    /\ IF t.ok
       THEN /\ Rerender(user, t.saved.id, <<t.saved>> \o sessions, appState,
                        tasks \ {t})
            /\ lastCreate' = [path |-> "remote", report |-> CreateReport(TRUE)]
            /\ UNCHANGED <<ls_sessions, fallbackIds>>
       ELSE /\ LocalWrite(t.session, appState, tasks \ {t})
            /\ lastCreate' = [path |-> "fallback", report |-> CreateReport(FALSE)]
            /\ fallbackIds' = fallbackIds \cup {t.session.id}
    /\ UNCHANGED <<authReady, initPc, sbUser, analyses, clock, events,
                   signedOutEvent, storeVars, ls_user, normVars, netVars>>

\* ---- delete and clear ----
\* handleDeleteSession: the local branch (lines 246-252)
LocalDelete(id, tasks2) ==
    LET next == FilterOut(sessions, id)
    IN /\ Rerender(user, IF currentSessionId = id THEN NoId ELSE currentSessionId,
                   next, appState, tasks2)
       /\ ls_sessions' = Cached(next)
       /\ fallbackIds' = fallbackIds \ {id}

\* handleDeleteSession(id) up to await deleteSessionInSupabase(id)
DeleteStart(id) ==
    /\ MainScreen /\ Has(sessions, id)
    /\ IF configured
       THEN /\ CanStart
            /\ \E dberr \in BOOLEAN :
                LET reply == deleteSessionInSupabase(sbUser, id, dberr)
                IN /\ rows' = reply.rows
                   /\ tasks' = tasks \cup
                        {[Task("delete") EXCEPT !.session = [NoSess EXCEPT !.id = id],
                                                !.ok = reply.status = 204]}
            /\ UNCHANGED <<user, sessions, currentSessionId, appState, ls_sessions,
                           fallbackIds>>
       ELSE /\ LocalDelete(id, tasks)
            /\ UNCHANGED rows
    /\ Event
    /\ UNCHANGED <<authReady, initPc, sbUser, analyses, clock, lastCreate,
                   signedOutEvent, nextId, configured, resp, ls_user, normVars, netVars>>

DeleteDone(t) ==
    /\ t.kind = "delete"
    /\ LET id == t.session.id
       IN IF t.ok
          THEN /\ Rerender(user, IF currentSessionId = id THEN NoId ELSE currentSessionId,
                           FilterOut(sessions, id), appState, tasks \ {t})
               /\ fallbackIds' = fallbackIds \ {id}
               /\ UNCHANGED ls_sessions
          ELSE LocalDelete(id, tasks \ {t})
    /\ UNCHANGED <<authReady, initPc, sbUser, analyses, clock, events,
                   lastCreate, signedOutEvent, storeVars, ls_user, normVars, netVars>>

\* handleClearHistory: the local branch (lines 230-233)
LocalClear(tasks2) ==
    /\ Rerender(user, NoId, <<>>, appState, tasks2)
    /\ ls_sessions' = NoCache
    /\ fallbackIds' = {}

\* handleClearHistory up to await clearAllSessionsInSupabase()
ClearStart ==
    /\ MainScreen
    /\ IF configured
       THEN /\ CanStart
            /\ \E dberr \in BOOLEAN :
                LET reply == clearAllSessionsInSupabase(sbUser, dberr)
                IN /\ rows' = reply.rows
                   /\ tasks' = tasks \cup
                        {[Task("clear") EXCEPT !.ok = reply.status = 204]}
            /\ UNCHANGED <<user, sessions, currentSessionId, appState, ls_sessions,
                           fallbackIds>>
       ELSE /\ LocalClear(tasks)
            /\ UNCHANGED rows
    /\ Event
    /\ UNCHANGED <<authReady, initPc, sbUser, analyses, clock, lastCreate,
                   signedOutEvent, nextId, configured, resp, ls_user, normVars, netVars>>

ClearDone(t) ==
    /\ t.kind = "clear"
    /\ IF t.ok
       THEN /\ Rerender(user, NoId, <<>>, appState, tasks \ {t})
            /\ fallbackIds' = {}
            /\ UNCHANGED ls_sessions
       ELSE LocalClear(tasks \ {t})
    /\ UNCHANGED <<authReady, initPc, sbUser, analyses, clock, events,
                   lastCreate, signedOutEvent, storeVars, ls_user, normVars, netVars>>

\* ---- navigation ----
\* handleSelectSession(id), and onNewAnalysis (id = NoId)
SelectSession(id) ==
    /\ MainScreen /\ (id = NoId \/ Has(sessions, id))
    /\ id # currentSessionId
    /\ Rerender(user, id, sessions, appState, tasks)
    /\ Event
    /\ UNCHANGED <<authReady, initPc, sbUser, analyses, clock,
                   lastCreate, fallbackIds, signedOutEvent, storeVars, cacheVars,
                   normVars, netVars>>

\* the "Go Back" button of the ERROR view
GoBack ==
    /\ MainScreen /\ appState = "ERROR"
    /\ appState' = "IDLE"
    /\ Event
    /\ UNCHANGED <<user, sessions, currentSessionId, authReady, initPc, sbUser,
                   tasks, analyses, clock, lastCreate, fallbackIds,
                   signedOutEvent, storeVars, cacheVars, normVars, netVars>>

(***************************************************************************)
(* Normalizer runs: one provider response, one normalizer, then the rest   *)
(* of processFile                                                          *)
(***************************************************************************)
NoAnalysis == [made |-> FALSE, r |-> NoResult]

\* the edge function answers with parseResponse(text)
RunParseResponse ==
    /\ normalizer = "none"
    /\ normalizer' = "edge"
    /\ result' = parseResponse(raw)
    /\ UNCHANGED <<raw, embedded, newSession, storeVars, netVars, cacheVars, appVars>>

\* analyzePaperWithCustomAI parses the chat completion
RunCustomAI ==
    /\ normalizer = "none"
    /\ normalizer' = "custom"
    /\ result' = customAIParse(raw)
    /\ UNCHANGED <<raw, embedded, newSession, storeVars, netVars, cacheVars, appVars>>

\* analyzePaperWithGemini returns parseGeminiResponse(text)
RunGemini ==
    /\ normalizer = "none"
    /\ normalizer' = "gemini"
    /\ result' = parseGeminiResponse(raw)
    /\ UNCHANGED <<raw, embedded, newSession, storeVars, netVars, cacheVars, appVars>>

\* processFile after a result: the session is built and handed to
\* onAnalysisComplete, the Workbench shows COMPLETE
ProcessFileComplete ==
    /\ result.status = "ok" /\ appState = "ANALYZING"
    /\ newSession' = [made |-> TRUE, r |-> result]
    /\ appState' = "COMPLETE"
    /\ UNCHANGED <<raw, embedded, normalizer, result, storeVars, netVars, cacheVars,
                   user, sessions, currentSessionId, authReady, initPc, sbUser,
                   tasks, analyses, clock, events, lastCreate, fallbackIds,
                   signedOutEvent>>

\* processFile catch block: the Workbench shows ERROR, nothing is persisted
ProcessFileError ==
    /\ result.status = "error" /\ appState = "ANALYZING"
    /\ appState' = "ERROR"
    /\ UNCHANGED <<normVars, netVars, storeVars, cacheVars,
                   user, sessions, currentSessionId, authReady, initPc, sbUser,
                   tasks, analyses, clock, events, lastCreate, fallbackIds,
                   signedOutEvent>>

(***************************************************************************)
(* The relay endpoint POST /api/proxy/chat/completions, and the browser's  *)
(* two transport adapters (analyzePaperWithGemini, analyzePaperWithCustomAI)*)
(***************************************************************************)
\* a target endpoint as new URL() reads it; an empty string is falsy, a text
\* that is no URL makes new URL() throw
Url(scheme, host, port) == [scheme |-> scheme, host |-> host, port |-> port]
NoUrl == [scheme |-> "", host |-> <<>>, port |-> ""]
MalformedUrl == [scheme |-> "?", host |-> <<>>, port |-> ""]

\* the string protocol + "//" + host, as the sequence of its scheme, its host
\* labels and its port
Origin(u) == <<u.scheme>> \o u.host \o (IF u.port = "" THEN <<>> ELSE <<u.port>>)

\* origin.startsWith(allowed), at the granularity of labels
StartsWith(s, pre) == Len(pre) <= Len(s) /\ SubSeq(s, 1, Len(pre)) = pre

\* isUrlAllowed(url)
isUrlAllowed(url) ==
    IF url = NoUrl \/ Len(ALLOWED_BASE_URLS) = 0 THEN FALSE
    ELSE IF url = MalformedUrl THEN FALSE
    ELSE \E i \in 1..Len(ALLOWED_BASE_URLS) :
            \/ Origin(url) = ALLOWED_BASE_URLS[i]
            \/ StartsWith(Origin(url), ALLOWED_BASE_URLS[i])

\* what a fetch() can end in: it rejects (network layer), it resolves with a
\* non-2xx status (cause: the message of the error body, empty when the body
\* is empty), its body is no JSON (response.json() rejects), the provider's
\* text cannot be normalized, or all is well
Outcome(kind, status, cause) == [kind |-> kind, status |-> status, cause |-> cause]
NoOutcome == Outcome("none", 0, "")
FailureKinds == {"network", "http", "parse"}
FetchOutcomes ==
    {Outcome("network", 0, c) : c \in {"Failed to fetch", "Load failed"}}
    \cup {Outcome("http", s, c) : s \in {401, 429, 500}, c \in {"quota exceeded", ""}}
    \cup {Outcome("parse", 200, c) : c \in {"body is not JSON", "text is not the contract"}}
    \cup {Outcome("ok", 200, "")}

GoodOrigin == <<"https:", "api", "good", "com">>
PartnerOrigin == <<"https:", "llm", "partner", "org">>

\* ALLOWED_CUSTOM_AI_BASE_URLS after split(','), trim, toLowerCase and
\* filter(Boolean); an operator may also have listed a base URL with its path
AllowLists == {<<>>, <<GoodOrigin>>, <<GoodOrigin, PartnerOrigin>>,
               <<GoodOrigin \o <<"/v1">> >>}

Targets ==
    {Url("https:", <<"api", "good", "com">>, ""),
     Url("https:", <<"api", "good", "com">>, ":8443"),
     Url("https:", <<"api", "good", "com", "evil", "net">>, ""),
     Url("http:", <<"api", "good", "com">>, ""),
     Url("https:", <<"llm", "partner", "org">>, ""),
     Url("https:", <<"evil", "net">>, ""),
     NoUrl, MalformedUrl}

\* req.body of the relay
ProxyBodies == [targetUrl : Targets, apiKey : BOOLEAN, model : BOOLEAN,
                messages : BOOLEAN]

NoProxyReq == [targetUrl |-> NoUrl, apiKey |-> FALSE, model |-> FALSE,
               messages |-> FALSE]
NoUpstream == [called |-> FALSE, target |-> NoUrl, outcome |-> NoOutcome]
ProxyReply(status, error, details) ==
    [status |-> status, error |-> error, details |-> details]
NoProxyRes == ProxyReply(0, "", "")

\* the handler of POST /api/proxy/chat/completions: its reply for a request
\* body, given what the upstream fetch ends in
proxyChatCompletions(body, outcome) ==
    IF body.targetUrl = NoUrl \/ ~body.apiKey \/ ~body.model \/ ~body.messages
    THEN ProxyReply(400, "Missing required parameters", "")
    ELSE IF ~isUrlAllowed(body.targetUrl)
    THEN ProxyReply(403, "Custom AI base URL is not allowed", "")
    ELSE CASE outcome.kind = "network" -> ProxyReply(500, "Internal Proxy Error", "")
           [] outcome.kind = "http" ->
                ProxyReply(outcome.status, "Upstream API Error", outcome.cause)
           [] outcome.kind = "parse" /\ outcome.cause = "body is not JSON" ->
                ProxyReply(500, "Internal Proxy Error", "")
           [] OTHER -> ProxyReply(200, "", "")

\* one request to the relay
ProxyChatCompletions ==
    \E body \in ProxyBodies, outcome \in FetchOutcomes :
        LET reply == proxyChatCompletions(body, outcome)
        IN /\ proxyReq' = body
           /\ proxyRes' = reply
           /\ upstream' = IF reply.status \in {400, 403} THEN NoUpstream
                          ELSE [called |-> TRUE, target |-> body.targetUrl,
                                outcome |-> outcome]
           /\ UNCHANGED <<ALLOWED_BASE_URLS, transport, normVars, storeVars,
                          cacheVars, appVars>>

\* an Error as the caller of an adapter receives it
Thrown(name, message) == [threw |-> TRUE, name |-> name, message |-> message]
NoError == [threw |-> FALSE, name |-> "", message |-> <<>>]

\* analyzePaperWithGemini up to the normalizer's return
analyzePaperWithGemini(hasKey, o) ==
    IF ~hasKey THEN Thrown("Error", <<"Gemini API key is required">>)
    ELSE CASE o.kind = "network" ->
                IF o.cause = "Failed to fetch"
                THEN Thrown("Error", <<"Could not reach Gemini from the browser (network or CORS)">>)
                ELSE Thrown("TypeError", <<o.cause>>)
           [] o.kind = "http" ->
                IF o.cause # "" THEN Thrown("Error", <<o.cause>>)
                ELSE Thrown("Error", <<"Gemini API error", ToString(o.status)>>)
           [] o.kind = "parse" ->
                IF o.cause = "body is not JSON" THEN Thrown("SyntaxError", <<o.cause>>)
                ELSE Thrown("Error", <<"Failed to parse analysis JSON">>)
           [] OTHER -> NoError

\* analyzePaperWithCustomAI: whatever is thrown inside its try block is
\* replaced by the error of its outer catch
analyzePaperWithCustomAI(o) ==
    LET inner == CASE o.kind = "network" -> Thrown("TypeError", <<o.cause>>)
                   [] o.kind = "http" ->
                        Thrown("Error", <<"Custom API Error:", ToString(o.status), o.cause>>)
                   [] o.kind = "parse" ->
                        IF o.cause = "body is not JSON"
                        THEN Thrown("SyntaxError", <<o.cause>>)
                        ELSE Thrown("Error", <<"Failed to parse analysis JSON">>)
                   [] OTHER -> NoError
    IN IF inner.threw
       THEN Thrown("Error", <<"Failed to analyze with Custom AI. Please check your settings.">>)
       ELSE NoError

NoTransport == [adapter |-> "none", outcome |-> NoOutcome, error |-> NoError]

\* processFile calls the native adapter
AnalyzeWithGemini ==
    \E hasKey \in BOOLEAN, o \in FetchOutcomes :
        /\ transport' = [adapter |-> "gemini",
                         outcome |-> IF hasKey THEN o ELSE NoOutcome,
                         error |-> analyzePaperWithGemini(hasKey, o)]
        /\ UNCHANGED <<ALLOWED_BASE_URLS, proxyReq, upstream, proxyRes, normVars,
                       storeVars, cacheVars, appVars>>

\* processFile calls the OpenAI-compatible adapter
AnalyzeWithCustomAI ==
    \E o \in FetchOutcomes :
        /\ transport' = [adapter |-> "custom", outcome |-> o,
                         error |-> analyzePaperWithCustomAI(o)]
        /\ UNCHANGED <<ALLOWED_BASE_URLS, proxyReq, upstream, proxyRes, normVars,
                       storeVars, cacheVars, appVars>>

NetIdle ==
    /\ ALLOWED_BASE_URLS = <<>>
    /\ proxyReq = NoProxyReq /\ upstream = NoUpstream /\ proxyRes = NoProxyRes
    /\ transport = NoTransport

(***************************************************************************)
(* Specifications                                                          *)
(***************************************************************************)
NormIdle ==
    /\ raw = <<>>
    /\ embedded = [f |-> BaseFields, ell |-> FALSE, wrap |-> "plain", pre |-> <<>>]
    /\ normalizer = "none"
    /\ result = NoResult
    /\ newSession = NoAnalysis

StoreIdle ==
    /\ rows = {} /\ nextId = 0 /\ resp = NoResp

AppIdle ==
    /\ user = NoUser /\ sessions = <<>> /\ currentSessionId = NoId
    /\ authReady = FALSE /\ initPc = "race" /\ sbUser = NoUser /\ tasks = {}
    /\ appState = "IDLE" /\ analyses = 0 /\ clock = 1 /\ events = 0
    /\ lastCreate = NoCreate /\ fallbackIds = {} /\ signedOutEvent = FALSE

\* a session an earlier visit left in the local cache / in the table
OldLocalSession == [id |-> LocalId(0), timestamp |-> 0]
OldRemoteRow == [id |-> Uuid(1), user_id |-> "A", timestamp |-> 0]

\* -- normalizers --
InitNorm ==
    /\ NetIdle
    /\ embedded \in Responses
    /\ raw = RenderText(embedded)
    /\ normalizer = "none" /\ result = NoResult /\ newSession = NoAnalysis
    /\ StoreIdle /\ configured = TRUE
    /\ ls_user = NoUser /\ ls_sessions = NoCache
    /\ user = "A" /\ sessions = <<>> /\ currentSessionId = NoId
    /\ authReady = TRUE /\ initPc = "done" /\ sbUser = NoUser /\ tasks = {}
    /\ appState = "ANALYZING" /\ analyses = 1 /\ clock = 1 /\ events = 0
    /\ lastCreate = NoCreate /\ fallbackIds = {} /\ signedOutEvent = FALSE

NextNorm ==
    \/ RunParseResponse
    \/ RunCustomAI
    \/ RunGemini
    \/ ProcessFileComplete
    \/ ProcessFileError

SpecNorm == InitNorm /\ [][NextNorm]_vars

\* -- session repository, two identities --
InitStore ==
    /\ NetIdle
    /\ NormIdle /\ AppIdle /\ StoreIdle
    /\ configured \in BOOLEAN
    /\ ls_user = NoUser
    /\ ls_sessions = Cached(<<OldLocalSession>>)

NextStore ==
    \/ \E u \in Identities : ApiList(u)
    \/ \E u \in Identities : ApiCreate(u)
    \/ \E u \in Identities : ApiDelete(u)
    \/ \E u \in Identities : ApiClear(u)
    \/ \E u \in Identities : SbList(u)
    \/ \E u \in Identities : SbCreate(u)
    \/ \E u \in Identities : SbDelete(u)
    \/ \E u \in Identities : SbClear(u)

SpecStore == InitStore /\ [][NextStore]_vars

\* -- the App --
InitApp ==
    /\ NetIdle
    /\ NormIdle
    /\ configured \in BOOLEAN
    /\ sbUser \in (IF configured THEN {NoUser, "A"} ELSE {NoUser})
    /\ rows \in (IF configured THEN {{}, {OldRemoteRow}} ELSE {{}})
    /\ nextId = Cardinality(rows)
    /\ resp = NoResp
    /\ ls_user \in {NoUser, Anon}
    /\ ls_sessions \in {NoCache, Cached(<<OldLocalSession>>)}
    /\ user = NoUser /\ sessions = <<>> /\ currentSessionId = NoId
    /\ authReady = FALSE /\ initPc = "race"
    /\ tasks = (IF configured
                THEN {[Task("initSupabase") EXCEPT !.pc = "getSession"]} ELSE {})
    /\ appState = "IDLE" /\ analyses = 0 /\ clock = 1 /\ events = 0
    /\ lastCreate = NoCreate /\ fallbackIds = {}
    /\ signedOutEvent = (configured /\ sbUser = NoUser)

NextApp ==
    \/ \E t \in tasks : SupGotSession(t)
    \/ \E t \in tasks : SupFetchDone(t)
    \/ InitTimeout
    \/ InitNoRemote
    \/ AuthEventSession
    \/ AuthEventNoSession
    \/ \E t \in tasks : RefreshGotMe(t)
    \/ \E t \in tasks : RefreshFetchDone(t)
    \/ LoginRemote
    \/ LoginLocal
    \/ \E t \in tasks : LoginFetchDone(t)
    \/ LogoutStart
    \/ \E t \in tasks : LogoutDone(t)
    \/ AnalysisStart
    \/ \E t \in tasks : AnalysisFail(t)
    \/ \E t \in tasks : AnalysisDone(t)
    \/ \E t \in tasks : CreateDone(t)
    \/ \E id \in {sessions[i].id : i \in 1..Len(sessions)} : DeleteStart(id)
    \/ \E t \in tasks : DeleteDone(t)
    \/ ClearStart
    \/ \E t \in tasks : ClearDone(t)
    \/ \E id \in {NoId} \cup {sessions[i].id : i \in 1..Len(sessions)} : SelectSession(id)
    \/ GoBack

SpecApp == InitApp /\ [][NextApp]_vars

\* the INIT_TIMEOUT_MS timer of the race always fires, and without a remote
\* backend initSupabase returns at once
SpecAppFair == SpecApp /\ WF_vars(InitTimeout) /\ WF_vars(InitNoRemote)

\* -- the relay and the transport adapters --
InitNet ==
    /\ NormIdle /\ StoreIdle /\ AppIdle
    /\ configured = FALSE /\ ls_user = NoUser /\ ls_sessions = NoCache
    /\ ALLOWED_BASE_URLS \in AllowLists
    /\ proxyReq = NoProxyReq /\ upstream = NoUpstream /\ proxyRes = NoProxyRes
    /\ transport = NoTransport

NextNet ==
    \/ ProxyChatCompletions
    \/ AnalyzeWithGemini
    \/ AnalyzeWithCustomAI

SpecNet == InitNet /\ [][NextNet]_vars

(***************************************************************************)
(* Session repository properties (SpecStore)                               *)
(***************************************************************************)
\* the owner of the row a returned session was read from
OwnerOf(id) == IF \E r \in rows : r.id = id
               THEN (CHOOSE r \in rows : r.id = id).user_id ELSE NoUser

RowsOfOthers(table, u) == {r \in table : r.user_id # u}

\* C1: for two distinct authenticated identities and any interleaving of
\* their list, create, delete and clear calls, every session a list call
\* returns to its caller was read from a row that caller owns.
C1_ListReturnsOnlyOwnRows ==
    resp.op = "list" =>
        \A i \in 1..Len(resp.list) : OwnerOf(resp.list[i].id) = resp.caller

\* a list call by A returned a session while B owns a row of the table
C1_Witness ==
    /\ resp.op = "list" /\ resp.caller = "A" /\ Len(resp.list) >= 1
    /\ \E r \in rows : r.user_id = "B"

\* C2: a delete(id) or clear-all call leaves the rows owned by every other
\* identity exactly as they were, whatever id the caller passes.
C2_DeleteLeavesOthersRows ==
    [][resp'.op \in {"delete", "clear"} =>
          RowsOfOthers(rows', resp'.caller) = RowsOfOthers(rows, resp'.caller)]_vars

\* A's delete of the id of a row owned by B completed without error and the
\* row is still there
C2_Witness ==
    /\ resp.op = "delete" /\ resp.caller = "A" /\ ~resp.failed
    /\ \E r \in rows : r.id = resp.id /\ r.user_id = "B"

\* C8: a failed remote list call (storage error, non-OK response, missing
\* token) returns the empty sequence and nothing of the local cache.
C8_FailedListIsEmpty ==
    (resp.op = "list" /\ resp.failed) =>
        /\ resp.list = <<>>
        /\ \A i \in 1..Len(resp.list) :
              \A k \in 1..Len(ls_sessions.list) : resp.list[i] # ls_sessions.list[k]

\* a list call failed while the caller owns a row and the local cache holds
\* a session
C8_Witness ==
    /\ resp.op = "list" /\ resp.failed
    /\ ls_sessions.list # <<>>
    /\ \E r \in rows : r.user_id = resp.caller

(***************************************************************************)
(* Normalizer properties (SpecNorm)                                        *)
(***************************************************************************)
OpenTags == {"<summary>", "<reasoning>", "<assumptions>", "<code>",
             "<reproducibility>", "<integrity>", "<simulation_data>"}

\* the text holds an opening brace, a delimiter or a field tag
HasJsonOrTags(t) ==
    \E i \in 1..Len(t) : t[i] \in {"{", startTag, endTag} \cup OpenTags

JsonNormalizers == {"edge", "custom"}
Delimited(e) == e.wrap \in {"final", "finalFenced"}

\* all seven fields present and of their type, nonempty strings, at most
\* three assumptions, no placeholder
WellFormed(e) ==
    /\ ~e.ell
    /\ \A k \in {"methodology_summary", "deep_reasoning", "citation_integrity",
                  "simulation_python_code"} : e.f[k].ty = "string" /\ e.f[k].s # <<>>
    /\ e.f["reproducibility_score"].ty = "number"
    /\ e.f["critical_assumptions"].ty = "array"
    /\ Len(e.f["critical_assumptions"].els) <= MaxAssumptions
    /\ e.f["simulation_data"].ty = "array"

\* C3: on a text with no JSON object and no tag structure every normalizer
\* fails with a parse error, and processFile builds no session from it.
C3_UnstructuredTextFails ==
    ~HasJsonOrTags(raw) =>
        /\ normalizer # "none" => result.status = "error"
        /\ ~newSession.made

\* C4: when a copy of the instructions quoting the delimiters precedes the
\* real delimited payload, both <FINAL_JSON> normalizers return the values of
\* the last payload.
C4_EchoedDelimitersLastPayload ==
    (/\ normalizer \in JsonNormalizers
     /\ embedded.pre = EchoedInstructions
     /\ Delimited(embedded) /\ WellFormed(embedded)) =>
        /\ result.status = "ok"
        /\ result.reasoning = embedded.f["deep_reasoning"]
        /\ result.assumptions = embedded.f["critical_assumptions"].els
        /\ result.simulationData = embedded.f["simulation_data"]

\* C5: for a well-formed delimited payload behind any delimiter-free preamble
\* and inside or outside markdown fences, the result carries exactly the
\* embedded summary, reasoning, assumptions, score, integrity label and
\* simulation data, whatever the string values contain.
C5_WellFormedPayloadExact ==
    (/\ normalizer \in JsonNormalizers
     /\ embedded.pre # EchoedInstructions
     /\ Delimited(embedded) /\ WellFormed(embedded)) =>
        /\ result.status = "ok"
        /\ result.summary = embedded.f["methodology_summary"]
        /\ result.reasoning = embedded.f["deep_reasoning"]
        /\ result.assumptions = embedded.f["critical_assumptions"].els
        /\ result.reproducibilityScore = embedded.f["reproducibility_score"].n
        /\ result.citationIntegrity = embedded.f["citation_integrity"]
        /\ result.simulationData = embedded.f["simulation_data"]

\* C10: on every successful normalization a missing or non-numeric score
\* yields 75 and a missing or non-string integrity label yields "Unknown".
C10_ScoreAndIntegrityDefaults ==
    LET f == embedded.f
        readsPayload ==
            \/ /\ normalizer \in JsonNormalizers
               /\ embedded.wrap \in {"final", "finalFenced"}
               /\ embedded.pre # EchoedInstructions
            \/ normalizer = "gemini" /\ embedded.wrap = "tags"
    IN (readsPayload /\ result.status = "ok") =>
          /\ f["reproducibility_score"].ty # "number"
                => result.reproducibilityScore = 75
          /\ (f["citation_integrity"].ty # "string"
               /\ ~(normalizer = "gemini" /\ f["citation_integrity"].ty # "undefined"))
                => result.citationIntegrity = StrV(<<"Unknown">>)

\* the normalizer located and parsed the payload the text was rendered from
ReadsPayload ==
    \/ /\ normalizer = "edge"
       /\ \/ Delimited(embedded)
          \/ embedded.wrap \in {"fenced", "bare"} /\ embedded.pre # EchoedInstructions
    \/ /\ normalizer = "custom"
       /\ embedded.wrap \in {"final", "finalFenced", "fenced"}
       /\ embedded.pre # EchoedInstructions
    \/ normalizer = "gemini" /\ embedded.wrap = "tags"

\* an assumption as the result carries it: the JSON normalizers keep the
\* array element, the tag parser the text of its line
AsReturned(el) == IF normalizer = "gemini" THEN SubSeq(el, 2, Len(el) - 1) ELSE el

\* C11: every normalized result has at most 3 assumptions, and a payload
\* with more than 3 is normalized to exactly its first 3, in their order.
C11_AssumptionsTruncatedToThree ==
    result.status = "ok" =>
        /\ Len(result.assumptions) <= 3
        /\ (ReadsPayload /\ Len(embedded.f["critical_assumptions"].els) > 3) =>
              result.assumptions =
                  [i \in 1..3 |-> AsReturned(embedded.f["critical_assumptions"].els[i])]

\* a payload of more than 3 assumptions was normalized to 3
C11_Witness ==
    /\ result.status = "ok" /\ ReadsPayload
    /\ Len(embedded.f["critical_assumptions"].els) > 3
    /\ Len(result.assumptions) = 3

\* C12: when the simulation_data array ends in the placeholder ", ..." and
\* the payload is otherwise valid, each JSON normalizer succeeds and returns
\* exactly the remaining elements in order.
C12_TrailingPlaceholderRemoved ==
    (/\ normalizer \in JsonNormalizers
     /\ Delimited(embedded) /\ embedded.pre # EchoedInstructions
     /\ embedded.ell /\ WellFormed([embedded EXCEPT !.ell = FALSE])
     /\ Len(embedded.f["simulation_data"].els) >= 1) =>
        /\ result.status = "ok"
        /\ result.simulationData = embedded.f["simulation_data"]

\* C13: a response in either delimiter schema (one tagged JSON object, or
\* the per-field tag pairs) is normalized by every provider path into a
\* result with the embedded values.
C13_BothSchemasAccepted ==
    (/\ normalizer # "none"
     /\ embedded.wrap \in {"final", "tags"} /\ embedded.pre = <<>>
     /\ WellFormed(embedded)) =>
        /\ result.status = "ok"
        /\ result.summary = embedded.f["methodology_summary"]
        /\ result.reasoning = embedded.f["deep_reasoning"]
        /\ result.citationIntegrity = embedded.f["citation_integrity"]

(***************************************************************************)
(* App properties (SpecApp)                                                *)
(***************************************************************************)
\* a list holds a remote-stored session together with a locally stored one
Mixed(q) ==
    \E i, j \in 1..Len(q) : IsUuid(q[i].id) /\ ~IsUuid(q[j].id)

\* C6: a session written through the local fallback after a failed remote
\* create is in every later view of the history exactly once, also after the
\* remote store has been listed again, until the user deletes it, clears the
\* history or signs out.
C6_FallbackSessionExactlyOnce ==
    \A id \in fallbackIds : Count(sessions, id) = 1

\* C7: neither the visible history nor the cached list logos_sessions ever
\* holds a remote-stored session together with a locally stored one.
C7_HistoryNeverMixed ==
    ~Mixed(sessions) /\ ~Mixed(ls_sessions.list)

\* C9: when the remote create failed and the local fallback ran, the session
\* is in the local store under its local id and what the caller is told
\* differs from what it is told after a successful remote create.
C9_FallbackIsReported ==
    lastCreate.path = "fallback" =>
        /\ \E i \in 1..Len(ls_sessions.list) : ~IsUuid(ls_sessions.list[i].id)
        /\ lastCreate.report # CreateReport(TRUE)

\* analysis requests that have neither completed nor failed
InFlightAnalyses == {t \in tasks : t.kind = "analysis"}

\* C14: at most one analysis request is in flight at any time, whatever the
\* user does (upload, select a history entry, New analysis, Go Back).
C14_OneAnalysisInFlight ==
    Cardinality(InFlightAnalyses) <= 1

\* C15: startup always terminates: authReady is eventually set, whether the
\* remote identity and history fetch succeeds, fails, throws or never
\* answers.
C15_StartupTerminates == <>authReady

\* startup ended on the timer while initSupabase had not answered
C15_Witness ==
    /\ authReady /\ initPc = "done"
    /\ \E t \in tasks : t.kind = "initSupabase" /\ t.pc = "getSession"

\* identity, history, selection and both cache entries are gone
SignedOutClean ==
    /\ user = NoUser /\ sessions = <<>> /\ currentSessionId = NoId
    /\ ls_user = NoUser /\ ~ls_sessions.present

\* the step on which handleLogout runs its finally block
LogoutCompletes ==
    \/ \E t \in tasks : LogoutDone(t)
    \/ ~configured /\ LogoutStart

\* C16: when sign-out completes, also after the remote signOut threw, the
\* in-memory identity is null, the history empty, no session selected and
\* the local cache holds neither a user nor sessions.
C16_SignOutClearsEverything ==
    [][LogoutCompletes => SignedOutClean']_vars

\* sign-out completed after the remote signOut threw (the auth client still
\* holds its session) and after a session had been written to the cache
C16_Witness ==
    /\ SignedOutClean /\ sbUser # NoUser
    /\ lastCreate.path = "fallback"
    /\ ~(\E t \in tasks : t.kind = "logout")

SortedDesc(q) ==
    \A i, j \in 1..Len(q) : i < j => q[i].timestamp >= q[j].timestamp

\* C17: every list result of the store and the visible history are ordered
\* newest timestamp first, after any sequence of boot, create, delete, clear
\* and refresh.
C17_HistoryNewestFirst ==
    /\ SortedDesc(sessions)
    /\ SortedDesc(resp.list)
    /\ \A t \in tasks : SortedDesc(t.list)

(***************************************************************************)
(* Ownership of stored rows, bulk clear, and the unconfigured server       *)
(***************************************************************************)
\* a step in which a create call stored a row
CreateSucceeds == resp'.op = "create" /\ ~resp'.failed

\* C18: every stored row has exactly one owner, an identity, and a row id
\* belongs to one row; a successful create adds exactly one row, owned by the
\* authenticated caller and with the id the table generated, whatever owner
\* or id the request body named
C18_OwnerIsAuthenticatedCreator ==
    /\ [](\A r \in rows : /\ r.user_id \in Identities
                          /\ \A r2 \in rows : r2.id = r.id => r2 = r)
    /\ [][CreateSucceeds =>
            \E r \in rows' :
                /\ r \notin rows
                /\ rows' = rows \cup {r}
                /\ r.user_id = resp'.caller
                /\ r.id = Uuid(nextId + 1)
                /\ resp'.saved = r]_vars

\* a create through the API whose body named the other identity and an id of
\* its own, stored for the caller under a generated id
C18_Witness ==
    /\ resp.op = "create" /\ resp.via = "api" /\ ~resp.failed
    /\ resp.owner \in Identities /\ resp.owner # resp.caller
    /\ resp.saved \in rows
    /\ resp.saved.user_id = resp.caller
    /\ resp.saved.id # resp.id

C20_UnconfiguredDeleteIs503 ==
    (~configured /\ resp.via = "api" /\ resp.op \in {"delete", "clear"})
        => resp.status = 503

(***************************************************************************)
(* Fallback scanning of undelimited JSON (SpecNorm)                        *)
(***************************************************************************)
\* C30: a text without the <FINAL_JSON> pair that holds one well-formed JSON
\* object, bare or inside a markdown fence (its data points are nested
\* objects), is normalized by each JSON normalizer to that object's values.
C30_UndelimitedJsonFallback ==
    (/\ normalizer \in JsonNormalizers
     /\ embedded.wrap \in {"fenced", "bare"}
     /\ embedded.pre # EchoedInstructions
     /\ WellFormed(embedded)) =>
        /\ result.status = "ok"
        /\ result.summary = embedded.f["methodology_summary"]
        /\ result.simulationData = embedded.f["simulation_data"]

(***************************************************************************)
(* Order of persistence, pending mutations, ids, late answers (SpecApp)    *)
(***************************************************************************)
\* a step in which a submission's extraction, transport or normalization
\* fails
SubmissionFails == \E t \in tasks : AnalysisFail(t)

C25_MutationAppliedWhenIssued ==
    \A t \in tasks :
        /\ t.kind = "create" => Has(sessions, t.session.id)
        /\ t.kind = "delete" => ~Has(sessions, t.session.id)
        /\ t.kind = "clear" => sessions = <<>>

\* no id occurs twice in the list
UniqueIds(q) == \A i, j \in 1..Len(q) : q[i].id = q[j].id => i = j

\* C26: no two sessions of the visible history, of the cached list or of the
\* remote table have the same id.
C26_SessionIdsUnique ==
    /\ UniqueIds(sessions)
    /\ UniqueIds(ls_sessions.list)
    /\ \A r1, r2 \in rows : r1.id = r2.id => r1 = r2

\* a step of initSupabase() that runs after the race was decided
LateInitAnswer ==
    initPc = "done" /\ \E t \in tasks : SupGotSession(t) \/ SupFetchDone(t)

\* C27: when the startup timer fires or no remote is configured, the visible
\* identity and history become the cached ones, and an answer of
\* initSupabase() that arrives afterwards changes neither.
C27_LateRemoteAnswerIgnored ==
    /\ [][(InitTimeout \/ InitNoRemote) =>
            (user' = ls_user /\ sessions' = ls_sessions.list)]_vars
    /\ [][LateInitAnswer => (user' = user /\ sessions' = sessions)]_vars

\* C28: in the signed-out state that a completed sign-out leaves (no user,
\* empty history, empty cache, no sign-out still running), history and cache
\* stay empty for as long as nobody is signed in, whatever call started
\* earlier now completes.
C28_SignedOutStaysEmpty ==
    [][(/\ SignedOutClean /\ authReady
        /\ ~(\E t \in tasks : t.kind = "logout")
        /\ user' = NoUser) =>
            (sessions' = <<>> /\ ls_sessions' = NoCache)]_vars

\* C29: a step that reports a delete of id successful ("Analysis deleted.")
\* leaves no row with that id in the remote table and no session with that
\* id in the cached list, so no later listing can show it.
C29_ReportedDeleteIsDurable ==
    /\ [][\A t \in tasks : DeleteDone(t) =>
            /\ ~(\E r \in rows' : r.id = t.session.id)
            /\ ~Has(ls_sessions'.list, t.session.id)]_vars
    /\ [][\A i \in 1..Len(sessions) :
            (~configured /\ DeleteStart(sessions[i].id)) =>
                ~Has(ls_sessions'.list, sessions[i].id)]_vars

(***************************************************************************)
(* Relay and transport properties (SpecNet)                                *)
(***************************************************************************)
\* a required field of the relay request is missing
MissingField(body) ==
    body.targetUrl = NoUrl \/ ~body.apiKey \/ ~body.model \/ ~body.messages

\* the origin of the target equals an origin of the allow-list
OriginListed(url) ==
    /\ url \notin {NoUrl, MalformedUrl}
    /\ \E i \in 1..Len(ALLOWED_BASE_URLS) : Origin(url) = ALLOWED_BASE_URLS[i]

\* the upstream call of the relay failed
UpstreamFailed == upstream.called /\ upstream.outcome.kind \in FailureKinds

\* C21: the relay answers 400 when a required field is missing, 403 when the
\* target is not in the allow-list, and 502 with the upstream body whenever
\* the upstream call fails; none of these is answered as a success.
C21_RelayErrorStatuses ==
    proxyRes # NoProxyRes =>
        /\ MissingField(proxyReq) => proxyRes.status = 400
        /\ (~MissingField(proxyReq) /\ ~OriginListed(proxyReq.targetUrl)) =>
               proxyRes.status = 403
        /\ UpstreamFailed =>
               (proxyRes.status = 502 /\ proxyRes.details = upstream.outcome.cause)

\* C22: the relay makes an upstream request only for a target whose origin
\* (scheme, host and port) equals an origin of the allow-list; with an empty
\* list it makes none.
C22_ForwardOnlyListedOrigins ==
    upstream.called => OriginListed(upstream.target)

\* the error an adapter delivers for an outcome of its fetch
Delivered(adapter, o) ==
    IF adapter = "gemini" THEN analyzePaperWithGemini(TRUE, o)
    ELSE analyzePaperWithCustomAI(o)

\* the cause an upstream non-2xx response states: the message of its error
\* body, or its status when the body is empty
CauseOf(o) == IF o.cause = "" THEN ToString(o.status) ELSE o.cause

\* C23: for both adapters, a network-layer failure, a non-2xx response and a
\* parse failure reach the caller as errors that differ from the error of
\* every failure of another kind, and the error of a non-2xx response carries
\* the cause the upstream stated.
C23_FailureKeepsItsKind ==
    (transport.adapter # "none" /\ transport.outcome.kind \in FailureKinds) =>
        /\ transport.error.threw
        /\ \A o \in FetchOutcomes :
              (o.kind \in FailureKinds /\ o.kind # transport.outcome.kind) =>
                  Delivered(transport.adapter, o) # transport.error
        /\ transport.outcome.kind = "http" =>
              \E i \in 1..Len(transport.error.message) :
                  transport.error.message[i] = CauseOf(transport.outcome)
====
